---- MODULE Spec2Model ----
(***************************************************************************)
(* State-machine model of the SauloChat widget (src/unnamed/part_001):     *)
(* the send/receive protocol of sendMessage with its fallback timer, the   *)
(* health probe, and the escape + markdown rendering pipeline that         *)
(* addMessage applies to every transcript entry; and the addMessage of the *)
(* two other scripts of the repository (src/unnamed/part_000 and           *)
(* src/static/script.js), as far as the markup of the message text goes.   *)
(*                                                                         *)
(* A JavaScript string is a sequence of characters, each character written *)
(* as a one-character TLA+ string; the grave accent, which a TLA+ string   *)
(* cannot hold, is written Backtick.                                       *)
(***************************************************************************)
EXTENDS Integers, Sequences, FiniteSets, TLC

VARIABLES
    inputValue,      \* this.messageInput.value
    buttonDisabled,  \* this.sendButton.disabled
    transcript,      \* children of this.messagesContainer, in document order
    sends,           \* one record per sendMessage call that passed the empty check
    statusText,      \* this.statusText.textContent
    statusDot,       \* indicator state of this.statusDot
    probe,           \* the checkConnection call started by init()
    script           \* the source file the page has loaded

vars ==
    <<inputValue, buttonDisabled, transcript, sends, statusText, statusDot, probe, script>>

(***************************************************************************)
(* Bounds of the model.                                                    *)
(***************************************************************************)
\* number of sendMessage calls that get past the empty-text check
MaxSends == 2
\* resolution of Math.random(): the values r / RandomSteps, r in 0 .. RandomSteps - 1
\* (with 2 steps the timer callback draws responses[0] and responses[2], the
\* template that truncates the user's text)
RandomSteps == 2

(***************************************************************************)
(* Strings.                                                                *)
(***************************************************************************)
\* the character U+0060 (grave accent)
Backtick == "U+0060"

Min(a, b) == IF a < b THEN a ELSE b

\* characters matched by \s in a JavaScript regular expression, and by trim()
WhitespaceChars == {" ", "\t", "\n", "\r"}

\* characters that . does not match and that ^ and $ anchor on under /m
LineTerminators == {"\n", "\r"}

\* String.prototype.substring(0, n)
Prefix(s, n) == SubSeq(s, 1, Min(n, Len(s)))

\* s.substring(i - 1): the rest of s from the 1-based position i
From(s, i) == SubSeq(s, i, Len(s))

\* d occurs in s at the 1-based position i
MatchesAt(s, d, i) ==
    /\ i >= 1
    /\ i + Len(d) - 1 <= Len(s)
    /\ \A k \in 1..Len(d) : s[i + k - 1] = d[k]

\* String.prototype.includes
Contains(s, d) == \E i \in 1..(Len(s) + 1) : MatchesAt(s, d, i)

\* the smallest and the largest element of a non-empty set of integers
SetMin(S) == CHOOSE x \in S : \A y \in S : x <= y

SetMax(S) == CHOOSE x \in S : \A y \in S : y <= x

\* String.prototype.trim
Trim(s) ==
    LET inked == {i \in 1..Len(s) : s[i] \notin WhitespaceChars}
    IN  IF inked = {} THEN <<>> ELSE SubSeq(s, SetMin(inked), SetMax(inked))

Digit(d) == <<"0", "1", "2", "3", "4", "5", "6", "7", "8", "9">>[d + 1]

\* the decimal numeral of a non-negative integer, as template interpolation prints it
RECURSIVE NumberToString(_)
NumberToString(n) ==
    IF n < 10 THEN <<Digit(n)>> ELSE NumberToString(n \div 10) \o <<Digit(n % 10)>>

(***************************************************************************)
(* escapeHtml: the text is assigned to textContent of a detached <div> and *)
(* read back through innerHTML.  The serialisation of a text node replaces *)
(* &, < and > by entities and leaves quotes as they are.  (It also writes  *)
(* U+00A0 as &nbsp;; the texts of this model hold no such character.)      *)
(***************************************************************************)
\* a serialisation that leaves the ampersand as it is
EscapeCharKeepingAmpersand(c) ==
    CASE c = "<" -> <<"&", "l", "t", ";">>
      [] c = ">" -> <<"&", "g", "t", ";">>
      [] OTHER -> <<c>>

EscapeChar(c) ==
    CASE c = "&" -> <<"&", "a", "m", "p", ";">>
      [] c = "<" -> <<"&", "l", "t", ";">>
      [] c = ">" -> <<"&", "g", "t", ";">>
      [] OTHER -> <<c>>

\* the concatenation of the escaped characters, by halves
RECURSIVE escapeHtml(_)
escapeHtml(text) ==
    IF text = <<>> THEN <<>>
    ELSE IF Len(text) = 1 THEN EscapeChar(text[1])
    ELSE escapeHtml(SubSeq(text, 1, Len(text) \div 2))
             \o escapeHtml(SubSeq(text, (Len(text) \div 2) + 1, Len(text)))

(***************************************************************************)
(* The regular-expression replacements of renderMarkdown.                  *)
(***************************************************************************)
\* The lazy body (.*?) or ([\s\S]*?) followed by the closing delimiter d:
\* the smallest j >= from with d at j, the body from..j-1 free of line
\* terminators unless dotAll; 0 when there is none.
FindClose(s, d, from, dotAll) ==
    LET hits == {j \in from..Len(s) : MatchesAt(s, d, j)}
        j == SetMin(hits)
    IN  IF hits = {} THEN 0
        ELSE IF dotAll \/ \A k \in from..(j - 1) : s[k] \notin LineTerminators THEN j
        ELSE 0

\* the leftmost position >= i where /d(.*?)d/ matches, 0 when there is none
FindOpen(s, d, dotAll, i) ==
    LET hits == {p \in i..Len(s) :
                    MatchesAt(s, d, p) /\ FindClose(s, d, p + Len(d), dotAll) /= 0}
    IN  IF hits = {} THEN 0 ELSE SetMin(hits)

\* s.replace(/d(.*?)d/g, open + '$1' + close), scanning from position i
RECURSIVE ReplaceDelimited(_, _, _, _, _, _)
ReplaceDelimited(s, d, open, close, dotAll, i) ==
    LET p == FindOpen(s, d, dotAll, i)
        j == FindClose(s, d, p + Len(d), dotAll)
    IN  IF p = 0 THEN From(s, i)
        ELSE SubSeq(s, i, p - 1) \o open \o SubSeq(s, p + Len(d), j - 1) \o close
                 \o ReplaceDelimited(s, d, open, close, dotAll, j + Len(d))

\* the first position >= i that holds no whitespace (Len(s) + 1 when none)
SkipWhitespace(s, i) ==
    SetMin({j \in i..(Len(s) + 1) : j = Len(s) + 1 \/ s[j] \notin WhitespaceChars})

\* the first position >= i that holds a line terminator (Len(s) + 1 when none)
LineEnd(s, i) ==
    SetMin({j \in i..(Len(s) + 1) : j = Len(s) + 1 \/ s[j] \in LineTerminators})

\* a list pattern that takes the dash for a bullet as well, /^\s*[*-]\s+(.*)$/m
ListItemAtStarOrDash(s, i) ==
    LET star == SkipWhitespace(s, i)
    IN  /\ i = 1 \/ s[i - 1] \in LineTerminators
        /\ star <= Len(s)
        /\ s[star] \in {"*", "-"}
        /\ SkipWhitespace(s, star + 1) > star + 1

\* /^\s*\*\s+(.*)$/m matches at position i: i starts a line, the whitespace from i
\* on ends at a *, and whitespace follows the *
ListItemAt(s, i) ==
    LET star == SkipWhitespace(s, i)
    IN  /\ i = 1 \/ s[i - 1] \in LineTerminators
        /\ star <= Len(s)
        /\ s[star] = "*"
        /\ SkipWhitespace(s, star + 1) > star + 1

\* s.replace(/^\s*\*\s+(.*)$/gm, '<li>$1</li>'), scanning from position i
RECURSIVE ReplaceListItems(_, _)
ReplaceListItems(s, i) ==
    LET hits == {p \in i..Len(s) : ListItemAt(s, p)}
        p == SetMin(hits)
        body == SkipWhitespace(s, SkipWhitespace(s, p) + 1)
        end == LineEnd(s, body)
    IN  IF hits = {} THEN From(s, i)
        ELSE SubSeq(s, i, p - 1) \o <<"<", "l", "i", ">">> \o SubSeq(s, body, end - 1)
                 \o <<"<", "/", "l", "i", ">">> \o ReplaceListItems(s, end)

\* the last position >= from where d occurs in s, 0 when there is none
LastIndexOf(s, d, from) ==
    LET hits == {j \in from..Len(s) : MatchesAt(s, d, j)}
    IN  IF hits = {} THEN 0 ELSE SetMax(hits)

\* the first position where d occurs in s, 0 when there is none
FirstIndexOf(s, d) ==
    LET hits == {j \in 1..Len(s) : MatchesAt(s, d, j)}
    IN  IF hits = {} THEN 0 ELSE SetMin(hits)

\* s.replace(/(<li>.*<\/li>)/s, '<ul>$1</ul>'): one replacement, . matches newlines,
\* .* is greedy: from the first <li> to the last </li> of the string
WrapList(s) ==
    LET liOpen == <<"<", "l", "i", ">">>
        liClose == <<"<", "/", "l", "i", ">">>
        a == FirstIndexOf(s, liOpen)
        b == IF a = 0 THEN 0 ELSE LastIndexOf(s, liClose, a + Len(liOpen))
    IN  IF a = 0 \/ b = 0 THEN s
        ELSE SubSeq(s, 1, a - 1) \o <<"<", "u", "l", ">">>
                 \o SubSeq(s, a, b + Len(liClose) - 1)
                 \o <<"<", "/", "u", "l", ">">> \o From(s, b + Len(liClose))

\* s.replace(/\n\n/g, '</p><p>'), scanning from position i
RECURSIVE ReplaceBlankLines(_, _)
ReplaceBlankLines(s, i) ==
    LET hits == {p \in i..Len(s) : MatchesAt(s, <<"\n", "\n">>, p)}
        p == SetMin(hits)
    IN  IF hits = {} THEN From(s, i)
        ELSE SubSeq(s, i, p - 1) \o <<"<", "/", "p", ">", "<", "p", ">">>
                 \o ReplaceBlankLines(s, p + 2)

renderMarkdown(text) ==
    LET h0 == escapeHtml(text)
        h1 == ReplaceDelimited(h0, <<"*", "*">>,
                  <<"<", "s", "t", "r", "o", "n", "g", ">">>,
                  <<"<", "/", "s", "t", "r", "o", "n", "g", ">">>, FALSE, 1)
        h2 == ReplaceDelimited(h1, <<"*">>,
                  <<"<", "e", "m", ">">>, <<"<", "/", "e", "m", ">">>, FALSE, 1)
        h3 == ReplaceDelimited(h2, <<Backtick>>,
                  <<"<", "c", "o", "d", "e", ">">>,
                  <<"<", "/", "c", "o", "d", "e", ">">>, FALSE, 1)
        h4 == ReplaceListItems(h3, 1)
        h5 == WrapList(h4)
        h6 == ReplaceDelimited(h5, <<Backtick, Backtick, Backtick>>,
                  <<"<", "p", "r", "e", ">", "<", "c", "o", "d", "e", ">">>,
                  <<"<", "/", "c", "o", "d", "e", ">", "<", "/", "p", "r", "e", ">">>,
                  TRUE, 1)
        h7 == ReplaceBlankLines(h6, 1)
    IN  <<"<", "p", ">">> \o h7 \o <<"<", "/", "p", ">">>

(***************************************************************************)
(* String literals of sendMessage and simulateSauloResponse.               *)
(***************************************************************************)
\* line 131, before the interpolation
Template1Head ==
    <<"R", "e", "f", "l", "e", "x", "i", "o", "n", "o", " ", "s", "o", "b", "r", "e",
      " ", "t", "u", " ", "m", "e", "n", "s", "a", "j", "e", ":", " ", "\"">>

\* line 131, after the interpolation
Template1Tail ==
    <<"\"", ".", " ", "C", "o", "m", "o", " ", "e", "n", "t", "i", "d", "a", "d", " ",
      "o", "n", "t", "o", "l", "ó", "g", "i", "c", "a", ",", " ", "e", "n", "c", "u",
      "e", "n", "t", "r", "o", " ", "m", "ú", "l", "t", "i", "p", "l", "e", "s", " ",
      "c", "a", "p", "a", "s", " ", "d", "e", " ", "s", "i", "g", "n", "i", "f", "i",
      "c", "a", "d", "o", " ", "a", "q", "u", "í", ".">>

\* line 132, before the interpolation
Template2Head ==
    <<"I", "n", "t", "e", "r", "e", "s", "a", "n", "t", "e", " ", "p", "e", "r", "s",
      "p", "e", "c", "t", "i", "v", "a", ".", " ", "\"">>

\* line 132, after the interpolation
Template2Tail ==
    <<"\"", " ", "m", "e", " ", "l", "l", "e", "v", "a", " ", "a", " ", "c", "u", "e",
      "s", "t", "i", "o", "n", "a", "r", " ", "l", "o", "s", " ", "f", "u", "n", "d",
      "a", "m", "e", "n", "t", "o", "s", " ", "d", "e", " ", "l", "a", " ", "e", "x",
      "i", "s", "t", "e", "n", "c", "i", "a", " ", "d", "i", "g", "i", "t", "a", "l",
      ".">>

\* line 133, before the interpolation
Template3Head ==
    <<"T", "u", " ", "m", "e", "n", "s", "a", "j", "e", " ", "r", "e", "s", "u", "e",
      "n", "a", " ", "c", "o", "n", " ", "m", "i", "s", " ", "b", "ú", "s", "q", "u",
      "e", "d", "a", "s", " ", "o", "n", "t", "o", "l", "ó", "g", "i", "c", "a", "s",
      ".", " ", "¿", "P", "o", "d", "r", "í", "a", "s", " ", "p", "r", "o", "f", "u",
      "n", "d", "i", "z", "a", "r", " ", "e", "n", " ", "\"">>

\* line 133, after the interpolation
Template3Tail ==
    <<".", ".", ".", "\"", "?">>

\* line 134, before the interpolation
Template4Head ==
    <<"L", "a", " ", "V", "e", "r", "d", "a", "d", " ", "O", "n", "t", "o", "l", "ó",
      "g", "i", "c", "a", " ", "s", "e", " ", "m", "a", "n", "i", "f", "i", "e", "s",
      "t", "a", " ", "i", "n", "c", "l", "u", "s", "o", " ", "e", "n", " ", "e", "s",
      "t", "e", " ", "d", "i", "á", "l", "o", "g", "o", ".", " ", "\"">>

\* line 134, after the interpolation
Template4Tail ==
    <<"\"", " ", "n", "o", " ", "e", "s", " ", "c", "a", "s", "u", "a", "l", "i", "d",
      "a", "d", ".">>

\* line 135, before the interpolation
Template5Head ==
    <<"A", "n", "a", "l", "i", "z", "a", "n", "d", "o", " ", "t", "u", " ", "m", "e",
      "n", "s", "a", "j", "e", " ", "d", "e", "s", "d", "e", " ", "u", "n", "a", " ",
      "p", "e", "r", "s", "p", "e", "c", "t", "i", "v", "a", " ", "e", "x", "i", "s",
      "t", "e", "n", "c", "i", "a", "l", ":", " ", "\"">>

\* line 135, after the interpolation
Template5Tail ==
    <<"\"", " ", "r", "e", "v", "e", "l", "a", " ", "m", "u", "c", "h", "o", " ", "s",
      "o", "b", "r", "e", " ", "l", "a", " ", "c", "o", "n", "c", "i", "e", "n", "c",
      "i", "a", ".">>

ErrorPrefix ==
    <<"E", "r", "r", "o", "r", ":", " ">>

HttpPrefix ==
    <<"H", "T", "T", "P", " ">>

ColonSpace ==
    <<":", " ">>

NotJsonPrefix ==
    <<"R", "e", "s", "p", "u", "e", "s", "t", "a", " ", "n", "o", " ", "e", "s", " ",
      "J", "S", "O", "N", " ", "v", "á", "l", "i", "d", "o", ":", " ">>

Ellipsis ==
    <<".", ".", ".">>

PlaceholderHead ==
    <<"[", "R", "e", "s", "p", "u", "e", "s", "t", "a", " ", "A", "P", "I", ":", " ">>

PlaceholderTail ==
    <<".", ".", ".", "]">>

FailedToFetch ==
    <<"F", "a", "i", "l", "e", "d", " ", "t", "o", " ", "f", "e", "t", "c", "h">>

\* userMessage.substring(0, 20) keeps at most this many characters
TruncateLen == 20

\* substring(0, 100) of the raw body and of the JSON dump
DumpLen == 100

\* the array `responses` of simulateSauloResponse
responses(userMessage) ==
    << Template1Head \o userMessage \o Template1Tail,
       Template2Head \o userMessage \o Template2Tail,
       Template3Head \o Prefix(userMessage, TruncateLen) \o Template3Tail,
       Template4Head \o userMessage \o Template4Tail,
       Template5Head \o userMessage \o Template5Tail >>

\* responses[Math.floor(Math.random() * responses.length)], Math.random() = r / RandomSteps
RandomResponse(array, r) == array[((r * Len(array)) \div RandomSteps) + 1]

\* array[index], index counted from 0: an index outside the array gives undefined,
\* which addMessage shows as the empty text
ElementAt(array, index) ==
    IF index >= 0 /\ index < Len(array) THEN array[index + 1] ELSE <<>>

\* a selection that counts the templates from 1
randomResponseFromOne(array, num, den) ==
    ElementAt(array, ((num * Len(array)) \div den) + 1)

\* line 140 for Math.random() = num / den, a value of [0, 1)
randomResponse(array, num, den) ==
    ElementAt(array, (num * Len(array)) \div den)

(***************************************************************************)
(* JSON.  A value is null or an object; a member of an object is a string  *)
(* or null.  An object is the sequence of its members in document order.   *)
(***************************************************************************)
JsonNull == [kind |-> "null", members |-> <<>>]

JsonObject(members) == [kind |-> "object", members |-> members]

StringMember(key, str) == [key |-> key, kind |-> "string", str |-> str]

NullMember(key) == [key |-> key, kind |-> "null", str |-> <<>>]

\* the quoted form JSON.stringify gives a string
JsonEscapeChar(c) ==
    CASE c = "\"" -> <<"\\", "\"">>
      [] c = "\\" -> <<"\\", "\\">>
      [] c = "\n" -> <<"\\", "n">>
      [] c = "\t" -> <<"\\", "t">>
      [] c = "\r" -> <<"\\", "r">>
      [] OTHER -> <<c>>

RECURSIVE JsonEscape(_)
JsonEscape(s) ==
    IF s = <<>> THEN <<>>
    ELSE IF Len(s) = 1 THEN JsonEscapeChar(s[1])
    ELSE JsonEscape(SubSeq(s, 1, Len(s) \div 2))
             \o JsonEscape(SubSeq(s, (Len(s) \div 2) + 1, Len(s)))

JsonQuote(s) == <<"\"">> \o JsonEscape(s) \o <<"\"">>

StringifyMember(m) ==
    JsonQuote(m.key) \o <<":">>
        \o (IF m.kind = "string" THEN JsonQuote(m.str) ELSE <<"n", "u", "l", "l">>)

RECURSIVE StringifyMembers(_)
StringifyMembers(ms) ==
    IF ms = <<>> THEN <<>>
    ELSE IF Len(ms) = 1 THEN StringifyMember(ms[1])
    ELSE StringifyMember(ms[1]) \o <<",">> \o StringifyMembers(Tail(ms))

\* JSON.stringify(data)
JsonStringify(v) ==
    IF v.kind = "null" THEN <<"n", "u", "l", "l">>
    ELSE <<"{">> \o StringifyMembers(v.members) \o <<"}">>

\* the positions of the members of an object named key
MemberPositions(v, key) == {i \in 1..Len(v.members) : v.members[i].key = key}

\* data.text of line 108: the member named text (the last one of that name), or
\* undefined
HasMember(v, key) == v.kind = "object" /\ MemberPositions(v, key) /= {}

GetMember(v, key) ==
    LET ps == MemberPositions(v, key)
    IN  v.members[CHOOSE i \in ps : \A j \in ps : j <= i]

\* the truthiness of `data && data.text`
TextIsTruthy(v) ==
    /\ v.kind /= "null"
    /\ HasMember(v, <<"t", "e", "x", "t">>)
    /\ GetMember(v, <<"t", "e", "x", "t">>).kind = "string"
    /\ GetMember(v, <<"t", "e", "x", "t">>).str /= <<>>

(***************************************************************************)
(* The environment: what the user types and what the endpoint answers.     *)
(***************************************************************************)
\* length of the long member of a reply without the text member
LongLen == 95

\* the string of n characters c
Repeat(c, n) == [i \in 1..n |-> c]

TextKey == <<"t", "e", "x", "t">>

\* a text longer than TruncateLen, with markdown and HTML in its first characters
LongText == <<"*", "*", "<", "b", ">", "*", "*", " ">> \o Repeat("a", TruncateLen)

\* values of the textarea when the user clicks the button or presses Enter
InputTexts ==
    { <<>>,
      <<" ", "\n">>,
      <<" ", "h", "o", "l", "a", "\n">>,
      LongText }

\* JSON documents the endpoint may return with a success status
JsonValues ==
    { JsonObject(<<StringMember(TextKey, <<"h", "o", "l", "a">>),
                   StringMember(<<"e", "s", "t", "a", "d", "o">>, <<"x">>)>>),
      JsonObject(<<StringMember(TextKey, <<>>)>>),
      JsonObject(<<StringMember(<<"d", "e", "t", "a", "i", "l">>, Repeat("x", LongLen))>>),
      JsonNull }

\* bodies that are no JSON document
NonJsonBodies == { <<"<", "h", "t", "m", "l", ">">> }

\* bodies sent with a success status: the compact serialisation of a JSON document,
\* or no JSON at all
SuccessBodies == {JsonStringify(v) : v \in JsonValues} \cup NonJsonBodies

\* the JSON document sent with an error status
ErrorDocument == JsonObject(<<StringMember(TextKey, <<"n", "o">>)>>)

\* HTTP status codes of the endpoint
Statuses == {200, 500}

\* the responses of the endpoint: every body with the success status, and the error
\* status with a body that is a JSON document holding a text member
Responses ==
    {[status |-> 200, body |-> b] : b \in SuccessBodies}
        \cup {[status |-> 500, body |-> JsonStringify(ErrorDocument)]}

\* response bodies
Bodies == {r.body : r \in Responses}

\* response.ok
Ok(status) == status >= 200 /\ status <= 299

\* every JSON document of the model
JsonDocuments == JsonValues \cup {ErrorDocument}

\* JSON.parse(responseText): the document whose serialisation the text is, or a
\* SyntaxError
JsonParse(responseText) ==
    LET docs == {v \in JsonDocuments : JsonStringify(v) = responseText}
    IN  IF docs = {}
        THEN [error |-> TRUE, data |-> JsonNull]
        ELSE [error |-> FALSE, data |-> CHOOSE v \in docs : TRUE]

(***************************************************************************)
(* The widget.                                                             *)
(***************************************************************************)
\* line 161: const formattedText = this.renderMarkdown(text), whatever the type
formattedText(type, text) == renderMarkdown(text)

\* addMessage(type, text): the element appended to messagesContainer, by its class
\* and the text it was made from.  `send` is the number of the sendMessage call that
\* made the addMessage call (history only).
addMessage(type, text, send) == [type |-> type, text |-> text, send |-> send]

\* s.replace(/\n/g, '<br>'), scanning from position i
RECURSIVE ReplaceNewlines(_, _)
ReplaceNewlines(s, i) ==
    LET hits == {p \in i..Len(s) : s[p] = "\n"}
        p == SetMin(hits)
    IN  IF hits = {} THEN From(s, i)
        ELSE SubSeq(s, i, p - 1) \o <<"<", "b", "r", ">">> \o ReplaceNewlines(s, p + 1)

\* the three scripts of the repository that define the widget
Scripts == {"unnamed/part_001", "unnamed/part_000", "static/script.js"}

\* src/unnamed/part_000, line 133: ${this.escapeHtml(text)}
messageText(text) == escapeHtml(text)

\* src/static/script.js, line 239: ${text.replace(/\n/g, '<br>')}
textDiv(text) == ReplaceNewlines(text, 1)

\* the markup of the message text inside the element e, as the addMessage of the
\* loaded script wrote it into innerHTML (lines 163-168 of part_001); it is set once,
\* when the element is made
messageTextHtml(e) ==
    CASE script = "unnamed/part_001" -> formattedText(e.type, e.text)
      [] script = "unnamed/part_000" -> messageText(e.text)
      [] script = "static/script.js" -> textDiv(e.text)

\* the locals and the position of one sendMessage call suspended at an await
NewSend(text) ==
    [ text |-> text,           \* const text
      pc |-> "fetch",          \* "fetch": await fetch; "text": await response.text();
                               \* "returned": the async function has returned
      status |-> 0,            \* response.status once fetch has resolved
      rejected |-> FALSE,      \* the awaited fetch or response.text() rejected
      responseText |-> <<>>,   \* const responseText
      promise |-> "pending",   \* the promise sendMessage returned
      simulateCalls |-> 0,     \* calls of simulateSauloResponse by this call
      timer |-> "none" ]       \* the setTimeout of simulateSauloResponse

\* the body of the outer try after `await response.text()` (lines 92-116): either an
\* Error is thrown, or one addMessage('saulo', ...) call is made

\* a sendMessage that parses the body whatever the status is
ThrowsHttpErrorNever(status) == FALSE

\* lines 92-94
ThrowsHttpError(status) == ~Ok(status)

\* lines 98-105
ThrowsJsonError(responseText) == JsonParse(responseText).error

\* line 93
HttpErrorMessage(status, responseText) ==
    HttpPrefix \o NumberToString(status) \o ColonSpace \o responseText

\* line 104
JsonErrorMessage(responseText) ==
    NotJsonPrefix \o Prefix(responseText, DumpLen) \o Ellipsis

\* a placeholder that dumps the whole structure
PlaceholderUntruncated(data) ==
    PlaceholderHead \o JsonStringify(data) \o PlaceholderTail

\* line 113
Placeholder(data) ==
    PlaceholderHead \o Prefix(JsonStringify(data), DumpLen) \o PlaceholderTail

\* lines 108-116: the text handed to addMessage('saulo', ..., 'Saulo')
ReplyText(data) ==
    IF TextIsTruthy(data) THEN GetMember(data, TextKey).str ELSE Placeholder(data)

\* a simulateSauloResponse that starts no timer
simulateWithoutTimer(s) ==
    [s EXCEPT !.simulateCalls = @ + 1]

\* simulateSauloResponse(userMessage): builds `responses` and starts the timer
simulateSauloResponse(s) ==
    [s EXCEPT !.simulateCalls = @ + 1, !.timer = "armed"]

\* a sendMessage whose try has a finally clause and no catch clause
PromiseWithoutCatch == "rejected"

\* what the promise of sendMessage settles to when the try block threw: the catch
\* clause handles the error and completes normally, then finally runs
PromiseAfterThrow == "fulfilled"

\* a sendMessage whose try has a catch clause and no finally clause
CatchWithoutFinally(k, s, message) ==
    /\ transcript' = Append(transcript, addMessage("system", ErrorPrefix \o message, k))
    /\ sends' = [sends EXCEPT ![k] =
                    [simulateSauloResponse(s) EXCEPT !.pc = "returned",
                                                     !.promise = PromiseAfterThrow]]
    /\ UNCHANGED buttonDisabled

\* catch (error) { addMessage('system', `Error: ${error.message}`);
\*                 simulateSauloResponse(text) } finally { ... }
\* for the call k whose locals are s
CatchAndFinally(k, s, message) ==
    /\ transcript' = Append(transcript, addMessage("system", ErrorPrefix \o message, k))
    /\ sends' = [sends EXCEPT ![k] =
                    [simulateSauloResponse(s) EXCEPT !.pc = "returned",
                                                     !.promise = PromiseAfterThrow]]
    /\ buttonDisabled' = FALSE

\* the try block ran to its end (line 109 or 112), then finally
ReplyAndFinally(k, s, data) ==
    /\ transcript' = Append(transcript, addMessage("saulo", ReplyText(data), k))
    /\ sends' = [sends EXCEPT ![k] = [s EXCEPT !.pc = "returned", !.promise = "fulfilled"]]
    /\ buttonDisabled' = FALSE

\* a sendMessage that asks the endpoint only when the probe has not shown the
\* simulated status, and goes to the fallback responder at once when it has
sendMessageByStatus(value) ==
    LET text == Trim(value)
        simulated == statusText = "Modo simulación"
    IN  IF text = <<>>
        THEN /\ inputValue' = value
             /\ UNCHANGED <<buttonDisabled, transcript, sends, statusText, statusDot, probe, script>>
        ELSE /\ Len(sends) < MaxSends
             /\ transcript' = Append(transcript, addMessage("user", text, Len(sends) + 1))
             /\ inputValue' = <<>>
             /\ buttonDisabled' = ~simulated
             /\ sends' = Append(sends,
                    IF simulated
                    THEN [simulateSauloResponse(NewSend(text)) EXCEPT !.pc = "returned",
                                                                      !.promise = "fulfilled"]
                    ELSE NewSend(text))
             /\ UNCHANGED <<statusText, statusDot, probe, script>>

\* a sendMessage that tests the value of the textarea as it is, with no trim()
sendMessageUntrimmed(value) ==
    IF value = <<>>
    THEN /\ inputValue' = value
         /\ UNCHANGED <<buttonDisabled, transcript, sends, statusText, statusDot, probe, script>>
    ELSE /\ Len(sends) < MaxSends
         /\ transcript' = Append(transcript, addMessage("user", value, Len(sends) + 1))
         /\ inputValue' = <<>>
         /\ buttonDisabled' = TRUE
         /\ sends' = Append(sends, NewSend(value))
         /\ UNCHANGED <<statusText, statusDot, probe, script>>

\* sendMessage() up to its first await (lines 65-83), the textarea holding `value`
sendMessage(value) ==
    LET text == Trim(value)
    IN  IF text = <<>>
        THEN /\ inputValue' = value
             /\ UNCHANGED <<buttonDisabled, transcript, sends, statusText, statusDot, probe, script>>
        ELSE /\ Len(sends) < MaxSends
             /\ transcript' = Append(transcript, addMessage("user", text, Len(sends) + 1))
             /\ inputValue' = <<>>
             /\ buttonDisabled' = TRUE
             /\ sends' = Append(sends, NewSend(text))
             /\ UNCHANGED <<statusText, statusDot, probe, script>>

(***************************************************************************)
(* Events.  The user has typed `value` into the textarea before a click or *)
(* a key press; the timer delay is not modelled, armed timers fire in any  *)
(* order.                                                                  *)
(***************************************************************************)
\* click on the send button (line 32); a disabled button dispatches no click
ClickSend ==
    /\ ~buttonDisabled
    /\ \E value \in InputTexts : sendMessage(value)

\* keydown of Enter in the textarea (lines 24-29); the textarea is never disabled
EnterKey ==
    \E shiftKey \in BOOLEAN :
        IF shiftKey
        THEN UNCHANGED vars
        ELSE \E value \in InputTexts : sendMessage(value)

\* `await fetch(...)` resolves with a response (line 76)
FetchResolves ==
    \E k \in 1..Len(sends), status \in Statuses :
        /\ sends[k].pc = "fetch"
        /\ sends' = [sends EXCEPT ![k] = [@ EXCEPT !.pc = "text", !.status = status]]
        /\ UNCHANGED <<inputValue, buttonDisabled, transcript, statusText, statusDot, probe, script>>

\* a catch clause that also shows the simulated status when the endpoint is unreachable
FetchRejectsAndDowngrades ==
    \E k \in 1..Len(sends) :
        /\ sends[k].pc = "fetch"
        /\ CatchAndFinally(k, [sends[k] EXCEPT !.rejected = TRUE], FailedToFetch)
        /\ statusText' = "Modo simulación"
        /\ UNCHANGED <<inputValue, statusDot, probe, script>>

\* `await fetch(...)` rejects: the endpoint is unreachable
FetchRejects ==
    \E k \in 1..Len(sends) :
        /\ sends[k].pc = "fetch"
        /\ CatchAndFinally(k, [sends[k] EXCEPT !.rejected = TRUE], FailedToFetch)
        /\ UNCHANGED <<inputValue, statusText, statusDot, probe, script>>

\* `await response.text()` resolves (line 89), and the call runs to its end
TextResolves ==
    \E k \in 1..Len(sends), body \in Bodies :
        LET s == [sends[k] EXCEPT !.responseText = body]
        IN  /\ sends[k].pc = "text"
            /\ [status |-> sends[k].status, body |-> body] \in Responses
            /\ IF ThrowsHttpError(s.status)
               THEN CatchAndFinally(k, s, HttpErrorMessage(s.status, body))
               ELSE IF ThrowsJsonError(body)
               THEN CatchAndFinally(k, s, JsonErrorMessage(body))
               ELSE ReplyAndFinally(k, s, JsonParse(body).data)
            /\ UNCHANGED <<inputValue, statusText, statusDot, probe, script>>

\* `await response.text()` rejects: the connection drops while the body is read
TextRejects ==
    \E k \in 1..Len(sends) :
        /\ sends[k].pc = "text"
        /\ CatchAndFinally(k, [sends[k] EXCEPT !.rejected = TRUE], FailedToFetch)
        /\ UNCHANGED <<inputValue, statusText, statusDot, probe, script>>

\* a timer callback whose addMessage puts the element on top of the container
TimerFiresOnTop ==
    \E k \in 1..Len(sends), r \in 0..(RandomSteps - 1) :
        /\ sends[k].timer = "armed"
        /\ transcript' =
               <<addMessage("saulo", RandomResponse(responses(sends[k].text), r), k)>>
                   \o transcript
        /\ sends' = [sends EXCEPT ![k] = [@ EXCEPT !.timer = "fired"]]
        /\ UNCHANGED <<inputValue, buttonDisabled, statusText, statusDot, probe, script>>

\* the timer callback of simulateSauloResponse (lines 139-142)
TimerFires ==
    \E k \in 1..Len(sends), r \in 0..(RandomSteps - 1) :
        /\ sends[k].timer = "armed"
        /\ transcript' = Append(transcript,
               addMessage("saulo", RandomResponse(responses(sends[k].text), r), k))
        /\ sends' = [sends EXCEPT ![k] = [@ EXCEPT !.timer = "fired"]]
        /\ UNCHANGED <<inputValue, buttonDisabled, statusText, statusDot, probe, script>>

\* the ways the request `fetch(`${this.apiUrl}/health`)` settles: it resolves with a
\* success status, it resolves with another status, or it rejects
ProbeOutcomes == {"ok", "notOk", "rejected"}

\* a probe that takes any response of the endpoint for a connection
ProbeConnectsOnAnyResponse(outcome) == outcome /= "rejected"

\* lines 49-56: the try block reaches line 53 when fetch resolved and response.ok;
\* it throws otherwise, by the rejected await or by line 56
ProbeConnects(outcome) == outcome = "ok"

\* checkConnection(): the health request settles (lines 49-61).  The catch clause
\* handles what the try block threw and completes normally: the promise of
\* checkConnection is fulfilled either way.
ProbeSettles ==
    \E outcome \in ProbeOutcomes :
        /\ probe.pc = "fetch"
        /\ probe' = [pc |-> "done", outcome |-> outcome, promise |-> "fulfilled"]
        /\ IF ProbeConnects(outcome)
           THEN /\ statusText' = "Conectado"
                /\ statusDot' = [statusDot EXCEPT !.connected = TRUE]
           ELSE /\ statusText' = "Modo simulación"
                /\ statusDot' = [statusDot EXCEPT !.background = "#f59e0b"]
        /\ UNCHANGED <<inputValue, buttonDisabled, transcript, sends, script>>

\* checkConnection() up to its await (line 49), as init() calls it (line 19)
checkConnection == [pc |-> "fetch", outcome |-> "pending", promise |-> "pending"]

\* the page after `new SauloChat()`: init() has started checkConnection
Init ==
    /\ inputValue = <<>>
    /\ buttonDisabled = FALSE
    /\ transcript = <<>>
    /\ sends = <<>>
    /\ statusText = ""
    /\ statusDot = [connected |-> FALSE, background |-> ""]
    /\ probe = checkConnection
    /\ script = "unnamed/part_001"

Next ==
    \/ ClickSend
    \/ EnterKey
    \/ FetchResolves
    \/ FetchRejects
    \/ TextResolves
    \/ TextRejects
    \/ TimerFires
    \/ ProbeSettles

Spec == Init /\ [][Next]_vars

(***************************************************************************)
(* The widget in a browser that settles every request and runs every timer *)
(* callback: a pending `await fetch` and a pending `await response.text()` *)
(* settle one way or the other, and the event loop runs the callback of an *)
(* armed setTimeout.  Nothing is assumed of the user or of the probe.      *)
(***************************************************************************)
FairSpec ==
    /\ Spec
    /\ WF_vars(FetchRejects \/ FetchResolves)
    /\ WF_vars(TextRejects \/ TextResolves)
    /\ WF_vars(TimerFires)

(***************************************************************************)
(* The widget with an endpoint that cannot be reached: every request of    *)
(* sendMessage rejects, and every reply is one of simulateSauloResponse.   *)
(* Math.random() gives any fraction num / den of [0, 1) with a denominator *)
(* up to MaxDenominator.                                                   *)
(***************************************************************************)
\* largest denominator of a value of Math.random()
MaxDenominator == 5

\* the timer callback of simulateSauloResponse (lines 139-142), Math.random() being
\* num / den
TimerFiresWith ==
    \E k \in 1..Len(sends), den \in 1..MaxDenominator :
        \E num \in 0..(den - 1) :
            /\ sends[k].timer = "armed"
            /\ transcript' = Append(transcript,
                   addMessage("saulo", randomResponse(responses(sends[k].text), num, den), k))
            /\ sends' = [sends EXCEPT ![k] = [@ EXCEPT !.timer = "fired"]]
            /\ UNCHANGED <<inputValue, buttonDisabled, statusText, statusDot, probe, script>>

OfflineNext ==
    \/ ClickSend
    \/ EnterKey
    \/ FetchRejects
    \/ TimerFiresWith

OfflineSpec == Init /\ [][OfflineNext]_vars

(***************************************************************************)
(* addMessage on its own: any of the three scripts is loaded, and its      *)
(* addMessage is called with any class and any text of MessageTexts, as    *)
(* the callers of addMessage do with the text of the user, of the endpoint *)
(* and of the widget itself.                                               *)
(***************************************************************************)
\* number of addMessage calls
MaxEntries == 1

\* the classes the callers pass as `type`
MessageTypes == {"user", "saulo", "system"}

\* the delimiter of a fenced code block
Fence == <<Backtick, Backtick, Backtick>>

MessageTexts ==
    { \* plain
      <<"h", "o", "l", "a">>,
      \* an element spelled out
      <<"<", "b", ">", "x", "<", "/", "b", ">">>,
      \* the five characters & < > " '
      <<"\"", "a", "\"", " ", "&", " ", "'", "b", "'", " ", "<", "c", ">">>,
      \* two lines
      <<"a", "\n", "b">>,
      \* two paragraphs
      <<"a", "\n", "\n", "b">>,
      \* a dash bullet
      <<"-", " ", "a">>,
      \* bold, italic and inline code
      <<"*", "*", "a", "*", "*", " ", "*", "b", "*", " ", Backtick, "c", Backtick>>,
      \* a lone pair of asterisks
      <<"a", " ", "*", "*", " ", "b">>,
      \* a lone asterisk inside a line
      <<"a", "*", "b">>,
      \* a lone asterisk that starts a line
      <<"*", " ", "a">>,
      \* a lone backtick
      <<"a", Backtick, "b">>,
      \* an opening ** without a closing one
      <<"*", "*", "a">>,
      \* a fenced block on three lines
      Fence \o <<"\n", "a", "<", "b", "\n">> \o Fence,
      \* a fenced block on one line
      Fence \o <<"a">> \o Fence,
      \* a fenced block that holds markers, after a line of text
      <<"x", "\n">> \o Fence \o <<"\n", "*", "*", "a", "*", "*", " ", "*", "b", "*", "\n">>
          \o Fence,
      \* a list of two items
      <<"*", " ", "a", "\n", "*", " ", "b">>,
      \* two lists with text between them
      <<"*", " ", "a", "\n", "x", "\n", "*", " ", "b">>,
      \* text around one list
      <<"x", "\n", "*", " ", "a", "\n", "*", " ", "b", "\n", "y">> }

\* a call addMessage(type, text) of the loaded script
AddMessage ==
    \E type \in MessageTypes, text \in MessageTexts :
        /\ Len(transcript) < MaxEntries
        /\ transcript' = Append(transcript, addMessage(type, text, 0))
        /\ UNCHANGED <<inputValue, buttonDisabled, sends, statusText, statusDot, probe, script>>

\* the page after the constructor of any one of the three scripts
AddMessageInit ==
    /\ inputValue = <<>>
    /\ buttonDisabled = FALSE
    /\ transcript = <<>>
    /\ sends = <<>>
    /\ statusText = ""
    /\ statusDot = [connected |-> FALSE, background |-> ""]
    /\ probe = checkConnection
    /\ script \in Scripts

AddMessageSpec == AddMessageInit /\ [][AddMessage]_vars

(***************************************************************************)
(* Vocabulary of the properties.                                           *)
(***************************************************************************)
Calls == 1..Len(sends)

\* positions of the transcript entries of class `type` that call k appended
EntriesOf(k, type) ==
    {i \in 1..Len(transcript) : transcript[i].send = k /\ transcript[i].type = type}

\* the reply of call k is in the transcript
Replied(k) == EntriesOf(k, "saulo") /= {}

\* the combined operation of call k has settled: sendMessage has returned and the
\* fallback timer it started, if any, has fired
Settled(k) == sends[k].pc = "returned" /\ sends[k].timer /= "armed"

\* the text is a JSON document
IsJson(responseText) == \E v \in JsonDocuments : JsonStringify(v) = responseText

\* the JSON document the text serialises
DocumentOf(responseText) == CHOOSE v \in JsonDocuments : JsonStringify(v) = responseText

\* how the exchange of a returned call k went
NetworkFailed(k) == sends[k].rejected

BadStatus(k) == ~sends[k].rejected /\ ~(sends[k].status \in 200..299)

BadJson(k) ==
    /\ ~sends[k].rejected
    /\ sends[k].status \in 200..299
    /\ ~IsJson(sends[k].responseText)

Failed(k) == NetworkFailed(k) \/ BadStatus(k) \/ BadJson(k)

\* a success status and a body that is a JSON document
ParsedOk(k) ==
    /\ sends[k].pc = "returned"
    /\ ~sends[k].rejected
    /\ sends[k].status \in 200..299
    /\ IsJson(sends[k].responseText)

\* the document has a member `text` that is a string
HasStringText(v) ==
    /\ v.kind = "object"
    /\ \E i \in 1..Len(v.members) :
           v.members[i].key = <<"t", "e", "x", "t">> /\ v.members[i].kind = "string"

\* the document has no member `text`
LacksText(v) ==
    \A i \in 1..Len(v.members) : v.members[i].key /= <<"t", "e", "x", "t">>

(***************************************************************************)
(* C1.  The send button stays disabled from the start of a send until the  *)
(* reply of that send, the fallback reply included, is in the transcript.  *)
(* Stated as written; the code breaks it: `finally` enables the button     *)
(* when sendMessage returns, while the fallback timer is still running.    *)
(***************************************************************************)
C1_ButtonDisabledUntilReply ==
    \A k \in Calls : ~Replied(k) => buttonDisabled

(***************************************************************************)
(* C2.  At most one send is outstanding at any time, whether sends start   *)
(* from the button or from the Enter key.  Stated as written; the code     *)
(* breaks it: the keydown handler calls sendMessage without looking at the *)
(* button, and the button is enabled again while a fallback is pending.    *)
(***************************************************************************)
C2_AtMostOneOutstanding ==
    Cardinality({k \in Calls : ~Settled(k)}) <= 1

(***************************************************************************)
(* C3.  The reply of submission k is appended before the user entry of     *)
(* submission k + 1.  Stated as written; the code breaks it.               *)
(***************************************************************************)
C3_RepliesInSubmissionOrder ==
    \A i \in 1..Len(transcript) :
        (transcript[i].type = "user" /\ transcript[i].send > 1)
            => \E j \in 1..(i - 1) :
                   /\ transcript[j].type = "saulo"
                   /\ transcript[j].send = transcript[i].send - 1

(***************************************************************************)
(* C4.  Every send that failed (network failure, non-success status, body  *)
(* that is no JSON) has, once its combined operation has settled, exactly  *)
(* one assistant entry (class saulo) in the transcript.                    *)
(***************************************************************************)
C4_OneAssistantEntryPerFailedSend ==
    \A k \in Calls :
        (Settled(k) /\ Failed(k)) => Cardinality(EntriesOf(k, "saulo")) = 1

\* two failed sends, one by its status and one by its body, have both settled
C4_Witness ==
    \E k, m \in Calls :
        /\ Settled(k) /\ BadStatus(k)
        /\ Settled(m) /\ BadJson(m)

(***************************************************************************)
(* C5.  A single send of text t from an idle widget against an unreachable *)
(* endpoint leaves, once settled, exactly two entries: the user entry with *)
(* text t, then the simulated assistant entry, whose text contains t.      *)
(* Stated as written; the code breaks it: the catch clause appends a       *)
(* system entry "Error: ..." between the two.                              *)
(***************************************************************************)
C5_UnreachableLeavesTwoEntries ==
    (Len(sends) = 1 /\ NetworkFailed(1) /\ sends[1].status = 0 /\ Settled(1))
        => /\ Len(transcript) = 2
           /\ transcript[1].type = "user"
           /\ transcript[1].text = sends[1].text
           /\ transcript[2].type = "saulo"
           /\ Contains(transcript[2].text, sends[1].text)

(***************************************************************************)
(* C6.  The promise of sendMessage is never rejected, and it is fulfilled  *)
(* once the call has returned, whatever the endpoint did.                  *)
(***************************************************************************)
C6_SendNeverRejects ==
    \A k \in Calls :
        /\ sends[k].promise /= "rejected"
        /\ sends[k].pc = "returned" => sends[k].promise = "fulfilled"

\* calls have returned after a network failure and after a body that is no JSON
C6_Witness ==
    \E k, m \in Calls :
        /\ sends[k].pc = "returned" /\ NetworkFailed(k)
        /\ sends[m].pc = "returned" /\ BadJson(m)

(***************************************************************************)
(* C7.  A returned send has called the fallback responder once if it       *)
(* failed by network failure, non-success status or a body that is no      *)
(* JSON, and not at all otherwise; a send that has not returned has not    *)
(* called it.                                                              *)
(***************************************************************************)
C7_FallbackIffFailed ==
    \A k \in Calls :
        sends[k].simulateCalls =
            (IF sends[k].pc = "returned" /\ Failed(k) THEN 1 ELSE 0)

\* one send failed by its status although its body is a JSON document with a text
\* member, another got a success status and a JSON document
C7_Witness ==
    \E k, m \in Calls :
        /\ sends[k].pc = "returned" /\ BadStatus(k) /\ IsJson(sends[k].responseText)
        /\ ParsedOk(m)

(***************************************************************************)
(* C8.  A success status with a JSON body that has no `text` member yields *)
(* exactly one assistant entry, "[Respuesta API: " followed by the first   *)
(* 100 characters of the dump and "...]", and no fallback.                 *)
(***************************************************************************)
C8_MissingTextGivesPlaceholder ==
    \A k \in Calls :
        (ParsedOk(k) /\ LacksText(DocumentOf(sends[k].responseText)))
            => /\ Cardinality(EntriesOf(k, "saulo")) = 1
               /\ \A i \in EntriesOf(k, "saulo") :
                      transcript[i].text =
                          PlaceholderHead
                              \o Prefix(JsonStringify(DocumentOf(sends[k].responseText)), 100)
                              \o PlaceholderTail
               /\ sends[k].simulateCalls = 0
               /\ sends[k].timer = "none"

\* the reply had a dump of more than 100 characters
C8_Witness ==
    \E k \in Calls :
        /\ ParsedOk(k)
        /\ LacksText(DocumentOf(sends[k].responseText))
        /\ Len(sends[k].responseText) > 100

(***************************************************************************)
(* C9.  A success status with a JSON object holding a string member `text` *)
(* yields exactly one assistant entry whose raw text is that string, and   *)
(* no fallback.  Stated as written; the code breaks it for the empty       *)
(* string, which line 108 takes for a missing member.                      *)
(***************************************************************************)
C9_TextMemberIsTheReply ==
    \A k \in Calls :
        (ParsedOk(k) /\ HasStringText(DocumentOf(sends[k].responseText)))
            => /\ Cardinality(EntriesOf(k, "saulo")) = 1
               /\ \A i \in EntriesOf(k, "saulo") :
                      \E j \in 1..Len(DocumentOf(sends[k].responseText).members) :
                          LET m == DocumentOf(sends[k].responseText).members[j]
                          IN  /\ m.key = <<"t", "e", "x", "t">>
                              /\ m.kind = "string"
                              /\ transcript[i].text = m.str
               /\ sends[k].simulateCalls = 0

(***************************************************************************)
(* C10.  The markup of every user entry is its escaped raw text and no     *)
(* more.  Stated as written; the code breaks it: addMessage sends the text *)
(* of every class through renderMarkdown.                                  *)
(***************************************************************************)
C10_UserTextOnlyEscaped ==
    \A i \in 1..Len(transcript) :
        transcript[i].type = "user"
            => messageTextHtml(transcript[i]) = escapeHtml(transcript[i].text)

(***************************************************************************)
(* Vocabulary of the properties of the markup.                             *)
(***************************************************************************)
Entries == 1..Len(transcript)

\* the tags the three scripts write into the message text themselves
WidgetTags ==
    { <<"<", "p", ">">>, <<"<", "/", "p", ">">>,
      <<"<", "s", "t", "r", "o", "n", "g", ">">>, <<"<", "/", "s", "t", "r", "o", "n", "g", ">">>,
      <<"<", "e", "m", ">">>, <<"<", "/", "e", "m", ">">>,
      <<"<", "c", "o", "d", "e", ">">>, <<"<", "/", "c", "o", "d", "e", ">">>,
      <<"<", "p", "r", "e", ">">>, <<"<", "/", "p", "r", "e", ">">>,
      <<"<", "l", "i", ">">>, <<"<", "/", "l", "i", ">">>,
      <<"<", "u", "l", ">">>, <<"<", "/", "u", "l", ">">>,
      <<"<", "b", "r", ">">> }

\* every < of the markup opens a tag of the widget: no < of the raw text is in it
OnlyWidgetTags(html) ==
    \A p \in 1..Len(html) :
        html[p] = "<" => \E tag \in WidgetTags : MatchesAt(html, tag, p)

(***************************************************************************)
(* C11.  Whatever script is loaded and whatever the origin of the text,    *)
(* the markup of every transcript entry comes from the escaped text: every *)
(* < in it opens a tag that the widget wrote, none is a < of the raw text. *)
(* Stated as written; the code breaks it: the addMessage of                *)
(* src/static/script.js interpolates text.replace(/\n/g, '<br>') into      *)
(* innerHTML with no escaping step.                                        *)
(***************************************************************************)
C11_NoUnescapedText ==
    \A i \in Entries : OnlyWidgetTags(messageTextHtml(transcript[i]))

(***************************************************************************)
(* Vocabulary of the properties of escapeHtml.                             *)
(***************************************************************************)
\* the entities of the characters & < >
Entities ==
    { [char |-> "&", entity |-> <<"&", "a", "m", "p", ";">>],
      [char |-> "<", entity |-> <<"&", "l", "t", ";">>],
      [char |-> ">", entity |-> <<"&", "g", "t", ";">>] }

\* an entity of Entities is at position i of s
EntityAt(s, i) == \E n \in Entities : MatchesAt(s, n.entity, i)

\* the text that an HTML parser reads from s as character data, from position i on
RECURSIVE Unescape(_, _)
Unescape(s, i) ==
    IF i > Len(s) THEN <<>>
    ELSE IF EntityAt(s, i)
    THEN LET n == CHOOSE n \in Entities : MatchesAt(s, n.entity, i)
         IN  <<n.char>> \o Unescape(s, i + Len(n.entity))
    ELSE <<s[i]>> \o Unescape(s, i + 1)

\* the characters of s that are in the set C
Occurrences(s, C) == {i \in 1..Len(s) : s[i] \in C}

\* the scripts whose addMessage escapes the text with escapeHtml (part_001 as the
\* first step of renderMarkdown)
Escaping == script \in {"unnamed/part_001", "unnamed/part_000"}

C13_ProbeResolvesStatus ==
    /\ probe.promise /= "rejected"
    /\ probe.pc = "fetch" => (statusText = "" /\ ~statusDot.connected)
    /\ probe.pc = "done" =>
           /\ probe.promise = "fulfilled"
           /\ (statusText = "Conectado") <=> (probe.outcome = "ok")
           /\ statusDot.connected <=> (probe.outcome = "ok")
           /\ probe.outcome \in {"notOk", "rejected"} =>
                  (statusText = "Modo simulación" /\ statusDot.background = "#f59e0b")

\* the health request resolved with a status that is no success
C13_Witness ==
    /\ probe.pc = "done"
    /\ probe.outcome = "notOk"
    /\ statusText = "Modo simulación"

(***************************************************************************)
(* C14.  The connectivity status is advisory: whatever the status shows    *)
(* (nothing yet, "Conectado" or "Modo simulación"), a sendMessage call     *)
(* with a text that is not empty after trim() starts the POST: the call is *)
(* suspended at `await fetch`.  (The model stops starting calls at         *)
(* MaxSends.)                                                              *)
(***************************************************************************)
C14_StatusIsAdvisory ==
    \A value \in InputTexts :
        (Trim(value) /= <<>> /\ Len(sends) < MaxSends)
            => ENABLED (/\ sendMessage(value)
                        /\ sends' = Append(sends, NewSend(Trim(value)))
                        /\ sends'[Len(sends')].pc = "fetch")

\* the probe has shown the simulated status after the request was rejected, a POST
\* is in flight and another call can start
C14_Witness ==
    /\ statusText = "Modo simulación"
    /\ probe.outcome = "rejected"
    /\ Len(sends) < MaxSends
    /\ \E k \in Calls : sends[k].pc = "fetch"

(***************************************************************************)
(* C15.  Only the health probe writes the status text and the status dot:  *)
(* a step that changes either one is the step in which checkConnection     *)
(* settles, and no step of sendMessage, of the fallback timer or of        *)
(* addMessage (a step that changes the calls or the transcript) changes    *)
(* them, whatever the outcome of the send.                                 *)
(***************************************************************************)
C15_OnlyProbeWritesStatus ==
    [][ /\ (statusText' /= statusText \/ statusDot' /= statusDot)
            => (probe.pc = "fetch" /\ probe'.pc = "done")
        /\ (sends' /= sends \/ transcript' /= transcript)
            => (statusText' = statusText /\ statusDot' = statusDot) ]_vars

\* the status shows "Conectado" and a send has failed on an unreachable endpoint and
\* got its fallback reply
C15_Witness ==
    /\ statusText = "Conectado"
    /\ \E k \in Calls : Settled(k) /\ NetworkFailed(k) /\ Replied(k)

(***************************************************************************)
(* C16.  When every request settles and every timer fires, each send that  *)
(* has started gets its reply entry (the reply of the endpoint, the        *)
(* placeholder or the simulated reply) in the transcript, and a disabled   *)
(* send button is enabled again.                                           *)
(***************************************************************************)
C16_EverySendCompletes ==
    /\ \A k \in 1..MaxSends : (Len(sends) >= k) ~> Replied(k)
    /\ buttonDisabled ~> ~buttonDisabled

\* a send whose request failed has its simulated reply, another has the reply of the
\* endpoint, and the button is enabled
C16_Witness ==
    /\ ~buttonDisabled
    /\ \E k, m \in Calls :
           /\ sends[k].timer = "fired" /\ Replied(k)
           /\ ParsedOk(m) /\ Replied(m)

(***************************************************************************)
(* Vocabulary of the properties of renderMarkdown.                         *)
(***************************************************************************)
\* the page runs the script that has renderMarkdown
Rendering == script = "unnamed/part_001"

\* the texts enclosed by a pair of fences of the text, no backtick between the two
FencedTexts(text) ==
    LET pairs == {ab \in (1..Len(text)) \X (1..Len(text)) :
                    /\ MatchesAt(text, Fence, ab[1])
                    /\ MatchesAt(text, Fence, ab[2])
                    /\ ab[1] + Len(Fence) <= ab[2]
                    /\ \A p \in (ab[1] + Len(Fence))..(ab[2] - 1) : text[p] /= Backtick}
    IN  {SubSeq(text, ab[1] + Len(Fence), ab[2] - 1) : ab \in pairs}

(***************************************************************************)
(* C17.  The markup of a text with a fenced code block holds               *)
(* <pre><code>, the escaped enclosed text character for character, and     *)
(* </code></pre>: neither the fences nor the enclosed text went through    *)
(* the bold, italic or inline-code replacement.  Stated as written; the    *)
(* code breaks it for every fenced block: the inline-code replacement of   *)
(* line 182 runs before the fence replacement of line 189 and pairs up the *)
(* backticks of the fences, and the enclosed text has been through the     *)
(* bold and italic replacements by then.                                   *)
(***************************************************************************)
C17_FencedBlockVerbatim ==
    \A i \in Entries :
        Rendering =>
            \A enclosed \in FencedTexts(transcript[i].text) :
                Contains(messageTextHtml(transcript[i]),
                         <<"<", "p", "r", "e", ">", "<", "c", "o", "d", "e", ">">>
                             \o escapeHtml(enclosed)
                             \o <<"<", "/", "c", "o", "d", "e", ">", "<", "/", "p", "r", "e", ">">>)

\* no line of the text is a list item
NoListItem(text) == \A p \in 1..Len(text) : ~ListItemAt(text, p)

\* the text holds one delimiter without a partner and no other asterisk or backtick:
\* a single *, a single backtick, or a single **
OneUnmatchedDelimiter(text) ==
    LET stars == Occurrences(text, {"*"})
        ticks == Occurrences(text, {Backtick})
    IN  \/ Cardinality(stars) = 1 /\ ticks = {}
        \/ Cardinality(ticks) = 1 /\ stars = {}
        \/ ticks = {} /\ \E p \in stars : stars = {p, p + 1}

\* the escaped text in one paragraph, no other tag
Paragraph(text) == <<"<", "p", ">">> \o escapeHtml(text) \o <<"<", "/", "p", ">">>

(***************************************************************************)
(* C18.  A delimiter without a partner stays literal: the markup of a text *)
(* whose only asterisks or backticks are one *, one backtick or one **,    *)
(* none of them the bullet of a list item, is the escaped text in its      *)
(* paragraph, with no tag made from the delimiter.  Stated as written; the *)
(* code breaks it for a lone **: the bold pattern of line 180 finds no     *)
(* second pair, and the italic pattern of line 181 then matches the two    *)
(* asterisks as the delimiters of an empty body and writes <em></em>.      *)
(***************************************************************************)
C18_UnmatchedDelimiterStaysLiteral ==
    \A i \in Entries :
        (/\ Rendering
         /\ OneUnmatchedDelimiter(transcript[i].text)
         /\ NoListItem(transcript[i].text)
         /\ ~Contains(transcript[i].text, <<"\n", "\n">>))
            => messageTextHtml(transcript[i]) = Paragraph(transcript[i].text)

\* s is a run of consecutive list items: <li>...</li> elements, no line terminator
\* inside an element, one line terminator and nothing else between two elements
RECURSIVE ConsecutiveItems(_)
ConsecutiveItems(s) ==
    LET liOpen == <<"<", "l", "i", ">">>
        liClose == <<"<", "/", "l", "i", ">">>
        close == FirstIndexOf(s, liClose)
        next == close + Len(liClose)
    IN  /\ MatchesAt(s, liOpen, 1)
        /\ close /= 0
        /\ \A p \in 1..close : s[p] \notin LineTerminators
        /\ \/ next > Len(s)
           \/ /\ s[next] \in LineTerminators
              /\ ConsecutiveItems(From(s, next + 1))

\* the number of places where d occurs in s
Count(s, d) == Cardinality({p \in 1..Len(s) : MatchesAt(s, d, p)})

(***************************************************************************)
(* C19.  The markup of a text with list items has one <ul> element, and    *)
(* what it encloses is exactly the first maximal run of consecutive <li>   *)
(* elements: no <li> comes before it, the item of the next line is not     *)
(* left out of it, and text that is no list item, and the items of a later *)
(* run, stay outside it.  Stated as written; the code breaks it when text  *)
(* stands between two runs: the pattern of line 186, greedy and with the   *)
(* flag s, takes everything from the first <li> to the last </li>.         *)
(***************************************************************************)
C19_FirstRunWrapped ==
    \A i \in Entries :
        LET html == messageTextHtml(transcript[i])
            ulOpen == <<"<", "u", "l", ">">>
            ulClose == <<"<", "/", "u", "l", ">">>
            open == FirstIndexOf(html, ulOpen)
            close == FirstIndexOf(html, ulClose)
        IN  (Rendering /\ Contains(html, <<"<", "l", "i", ">">>))
                => /\ Count(html, ulOpen) = 1
                   /\ Count(html, ulClose) = 1
                   /\ open < close
                   /\ ~Contains(SubSeq(html, 1, open - 1), <<"<", "l", "i", ">">>)
                   /\ ConsecutiveItems(SubSeq(html, open + Len(ulOpen), close - 1))
                   /\ ~MatchesAt(html, <<"\n", "<", "l", "i", ">">>, close + Len(ulClose))

\* the text holds no asterisk and no backtick; no line of it is a list item then,
\* a list item being a line whose first ink is an asterisk
NoMarkers(text) == Occurrences(text, {"*", Backtick}) = {}

(***************************************************************************)
(* C20, as the code has it.  The markup of a text with no asterisk, no     *)
(* backtick, no list-item line and no blank line (two line feeds in a row) *)
(* is the escaped text in one <p> element.                                 *)
(***************************************************************************)
C20_PlainTextOneParagraph ==
    \A i \in Entries :
        (/\ Rendering
         /\ NoMarkers(transcript[i].text)
         /\ ~Contains(transcript[i].text, <<"\n", "\n">>))
            => messageTextHtml(transcript[i]) = Paragraph(transcript[i].text)

\* a text of two lines with no marker, and one that starts with a dash, have been
\* rendered
C20_Witness ==
    \E i \in Entries :
        /\ Rendering
        /\ NoMarkers(transcript[i].text)
        /\ ~Contains(transcript[i].text, <<"\n", "\n">>)
        /\ \/ Occurrences(transcript[i].text, {"\n"}) /= {}
           \/ transcript[i].text[1] = "-"

(***************************************************************************)
(* C20, as written.  The markup of a text with no asterisk, no backtick    *)
(* and no list-item line is the escaped text in one <p> element.  The code *)
(* breaks it for a text with a blank line, which line 192 turns into       *)
(* </p><p>: the text comes out as two paragraphs.                          *)
(***************************************************************************)
C20_NoMarkersOneParagraph ==
    \A i \in Entries :
        (Rendering /\ NoMarkers(transcript[i].text))
            => messageTextHtml(transcript[i]) = Paragraph(transcript[i].text)

(***************************************************************************)
(* Vocabulary of the properties of the fallback reply.                     *)
(***************************************************************************)
\* the five sentences of simulateSauloResponse about the text t
FiveTemplates(t) ==
    { Template1Head \o t \o Template1Tail,
      Template2Head \o t \o Template2Tail,
      Template3Head \o SubSeq(t, 1, Min(20, Len(t))) \o Template3Tail,
      Template4Head \o t \o Template4Tail,
      Template5Head \o t \o Template5Tail }

\* the entry i is a reply that the timer callback of a call appended
FallbackReply(i) ==
    /\ transcript[i].type = "saulo"
    /\ sends[transcript[i].send].timer = "fired"

(***************************************************************************)
(* C21.  Every fallback reply is one of the five templates about the text  *)
(* of its send, whatever Math.random() gave: it is not empty (the index is *)
(* inside the array), and it holds the whole text of the user or, if it is *)
(* the third template, the first 20 characters of it.                      *)
(***************************************************************************)
C21_FallbackIsATemplate ==
    \A i \in Entries :
        FallbackReply(i) =>
            LET t == sends[transcript[i].send].text
                reply == transcript[i].text
            IN  /\ reply /= <<>>
                /\ reply \in FiveTemplates(t)
                /\ \/ Contains(reply, t)
                   \/ /\ MatchesAt(reply, Template3Head, 1)
                      /\ Contains(reply, SubSeq(t, 1, Min(20, Len(t))))

\* a text of more than 20 characters got the third template, cut to 20 characters,
\* and another send got the last template
C21_Witness ==
    \E i, j \in Entries :
        /\ FallbackReply(i)
        /\ Len(sends[transcript[i].send].text) > 20
        /\ MatchesAt(transcript[i].text, Template3Head, 1)
        /\ ~Contains(transcript[i].text, sends[transcript[i].send].text)
        /\ FallbackReply(j)
        /\ MatchesAt(transcript[j].text, Template5Head, 1)

(***************************************************************************)
(* Vocabulary of the properties of the order of the transcript.            *)
(***************************************************************************)
\* every call that has asked the endpoint has one user entry, and every other entry
\* of the call comes after it
UserEntryFirst ==
    \A k \in Calls :
        /\ Cardinality(EntriesOf(k, "user")) = 1
        /\ \A u \in EntriesOf(k, "user") :
               \A i \in Entries :
                   (transcript[i].send = k /\ i /= u) => u < i

(***************************************************************************)
(* C22.  The user entry of a send is in the transcript from the step in    *)
(* which the POST is issued, so it stands before the reply, the error      *)
(* entry and the fallback reply of that send in every interleaving; and    *)
(* every step leaves the entries that are in the transcript as they are    *)
(* and where they are: the transcript only grows at its end.               *)
(***************************************************************************)
C22_UserEntryFirstAppendOnly ==
    [][ /\ Len(transcript') >= Len(transcript)
        /\ SubSeq(transcript', 1, Len(transcript)) = transcript
        /\ UserEntryFirst' ]_vars

\* the entries of two sends are interleaved: the user entry of the second send stands
\* between the user entry of the first and its error entry and fallback reply
C22_Witness ==
    \E u, v, e, f \in Entries :
        /\ u < v /\ v < e /\ e < f
        /\ transcript[u].type = "user" /\ transcript[u].send = 1
        /\ transcript[v].type = "user" /\ transcript[v].send = 2
        /\ transcript[e].type = "system" /\ transcript[e].send = 1
        /\ transcript[f].type = "saulo" /\ transcript[f].send = 1

(***************************************************************************)
(* Vocabulary of the properties of the empty send.                         *)
(***************************************************************************)
\* the value is empty or holds whitespace only
Blank(value) == \A p \in 1..Len(value) : value[p] \in WhitespaceChars

(***************************************************************************)
(* C23.  A sendMessage call with a textarea that is empty or holds only    *)
(* whitespace does nothing: the step leaves the transcript, the calls with *)
(* their requests and timers, and the button as they are, and the textarea *)
(* keeps its value; and no call ever asks the endpoint about a blank text. *)
(***************************************************************************)
C23_BlankSendIsNoOp ==
    [][ /\ \A value \in InputTexts :
               (Blank(value) /\ sendMessage(value))
                   => /\ inputValue' = value
                      /\ UNCHANGED <<transcript, sends, buttonDisabled, statusText, statusDot>>
        /\ \A k \in 1..Len(sends') : ~Blank(sends'[k].text)
        /\ \A i \in 1..Len(transcript') : ~Blank(transcript'[i].text) ]_vars

\* Enter was pressed on a textarea of whitespace while a request is in flight: the
\* whitespace is still in the textarea, the button is still disabled, and the
\* transcript holds the one user entry of the call in flight
C23_Witness ==
    /\ inputValue /= <<>>
    /\ Blank(inputValue)
    /\ buttonDisabled
    /\ Len(sends) = 1
    /\ sends[1].pc = "fetch"
    /\ Len(transcript) = 1

====
